---- MODULE Spec2Model ----
(***************************************************************************)
(* StockMate-Chess server.                                                 *)
(*                                                                         *)
(* Two state machines are modelled:                                        *)
(*   Spec      the realtime presence / challenge handshake (the WebSocket  *)
(*             server together with the HTTP login and logout routes that  *)
(*             touch the same registry);                                   *)
(*   HttpSpec  the move broker: the engine handle, the remote opponent     *)
(*             adapter and the HTTP routes that use them.                  *)
(*                                                                         *)
(* Node runs every handler to completion or up to its next await, so an    *)
(* action is one handler (presence) or one run-to-the-next-await segment   *)
(* of a handler (move broker).                                             *)
(***************************************************************************)
EXTENDS Integers, Sequences, FiniteSets, TLC

(***************************************************************************)
(* Bounds                                                                  *)
(***************************************************************************)
\* number of WebSocket connections the server accepts in one run
NumConns == 2

Conns == 1..NumConns

\* registered usernames (each has a row in the users table)
Users == {"alice", "bob"}

\* the connection's `username` before any login message (null)
Null == ""

VARIABLES
  onlineUsers,   \* key -> [id, username]                (part_000:74)
  wsClients,     \* username -> connection               (part_000:75)
  readyState,    \* connection -> NEW/OPEN/CLOSING/CLOSED (ws readyState)
  username,      \* connection -> closure variable `username` (part_000:546)
  offered,       \* history: pairs <<A, B>>, A # B, with a delivered, unanswered challenge
  ev,            \* history: the event handled by the last step
  out            \* history: the messages sent by the last step, in order

presenceVars == <<onlineUsers, wsClients, readyState, username, offered, ev, out>>

VARIABLES
  currentOpponent,  \* let currentOpponent: string | null   (index.ts:53)
  searchDepth,      \* let searchDepth                      (index.ts:48)
  enginePosition,   \* the position last sent to the engine subprocess
  req,              \* slot -> the HTTP request running in it, suspended at `pc`
  resp,             \* slot -> the response sent for the request of the slot
  sent,             \* history: the commands written to the engine, and the calls
                    \* made to the remote service, by the last step
  reply             \* history: the answer of the engine or of the remote service
                    \* that the last step received (of a search, the scores of
                    \* its info lines when every line has a numeric score)

httpVars == <<currentOpponent, searchDepth, enginePosition, req, resp, sent, reply>>

vars == <<presenceVars, httpVars>>

(***************************************************************************)
(* Keys of onlineUsers.  A WebSocket connection is keyed by the uuid drawn *)
(* when it is accepted; the HTTP login route keys by the database id of    *)
(* the user.  Both are strings once used as object keys.                   *)
(***************************************************************************)
userId(c) == "uuid-" \o ToString(c)

DbId(u) == IF u = "alice" THEN "1" ELSE "2"

IntegerKeys == {DbId(u) : u \in Users}

Drop(f, ks) == [k \in DOMAIN f \ ks |-> f[k]]

Put(f, k, v) == [x \in DOMAIN f \cup {k} |-> IF x = k THEN v ELSE f[x]]

\* Object.values(onlineUsers): ids equal keys, so the values are pairwise
\* distinct and the array is represented by the set of its elements.
ObjectValues(ou) == {ou[k] : k \in DOMAIN ou}

\* wss.clients: the server keeps a socket from its acceptance until its
\* 'close' event (the library removes it before the handler below runs).
wssClients(rs) == {c \in Conns : rs[c] \in {"OPEN", "CLOSING"}}

RECURSIVE SendAll(_, _)
SendAll(cs, m) ==
  IF cs = {} THEN <<>>
  ELSE LET c == CHOOSE x \in cs : \A y \in cs : x <= y
       IN  <<[to |-> c, msg |-> m]>> \o SendAll(cs \ {c}, m)

\* Variant of broadcastOnlineUsers without the readyState test: it also sends
\* to sockets that are closing.  C14 must tell it from the code.
broadcastOnlineUsers_NoStateTest(ou, rs) ==
  SendAll(wssClients(rs), [type |-> "onlineUsers", users |-> ObjectValues(ou)])

\* broadcastOnlineUsers(): the Set of the stringified values collapses only
\* entries equal in id and username.
broadcastOnlineUsers(ou, rs) ==
  LET uniqueUsers == ObjectValues(ou)
      message == [type |-> "onlineUsers", users |-> uniqueUsers]
  IN  SendAll({c \in wssClients(rs) : rs[c] = "OPEN"}, message)

(***************************************************************************)
(* Presence / challenge handlers                                           *)
(***************************************************************************)
PresenceInit ==
  /\ onlineUsers = <<>>
  /\ wsClients = <<>>
  /\ readyState = [c \in Conns |-> "NEW"]
  /\ username = [c \in Conns |-> Null]
  /\ offered = {}
  /\ ev = [type |-> "init"]
  /\ out = <<>>

\* wss.on('connection'): a new socket; the initial list is sent to it.
Connect(c) ==
  /\ readyState[c] = "NEW"
  /\ \A d \in Conns : d < c => readyState[d] # "NEW"
  /\ readyState' = [readyState EXCEPT ![c] = "OPEN"]
  /\ ev' = [type |-> "connection", conn |-> c]
  /\ out' = <<[to |-> c,
               msg |-> [type |-> "onlineUsers", users |-> ObjectValues(onlineUsers)]]>>
  /\ UNCHANGED <<onlineUsers, wsClients, username, offered>>
  /\ UNCHANGED httpVars

\* ws.on('message') with {type: 'login', username: u}
WsLogin(c, u) ==
  /\ readyState[c] = "OPEN"
  /\ LET stale == {k \in DOMAIN onlineUsers : onlineUsers[k].username = u}
         ou1 == Drop(onlineUsers, stale)
         wc1 == IF stale = {} THEN wsClients ELSE Drop(wsClients, {u})
         ou2 == Put(ou1, userId(c), [id |-> userId(c), username |-> u])
     IN  /\ onlineUsers' = ou2
         /\ wsClients' = Put(wc1, u, c)
         /\ out' = broadcastOnlineUsers(ou2, readyState)
  /\ username' = [username EXCEPT ![c] = u]
  /\ ev' = [type |-> "login", conn |-> c, username |-> u]
  /\ UNCHANGED <<readyState, offered>>
  /\ UNCHANGED httpVars

IsOpen(wc, rs, u) == u \in DOMAIN wc /\ rs[wc[u]] = "OPEN"

\* ws.on('message') with {type: 'challenge', from, to}
WsChallenge(c, from, to) ==
  /\ readyState[c] = "OPEN"
  /\ LET delivered == IsOpen(wsClients, readyState, to)
     IN  /\ out' = IF delivered
                   THEN <<[to |-> wsClients[to],
                           msg |-> [type |-> "challenge_received", from |-> from]]>>
                   ELSE <<>>
         /\ offered' = IF delivered /\ from # to
                        THEN offered \cup {<<from, to>>} ELSE offered
         /\ ev' = [type |-> "challenge", conn |-> c, from |-> from, to |-> to,
                   present |-> \E k \in DOMAIN onlineUsers : onlineUsers[k].username = to]
  /\ UNCHANGED <<onlineUsers, wsClients, readyState, username>>
  /\ UNCHANGED httpVars

\* ws.on('message') with {type: 'challenge_response', from, to, accepted}
WsChallengeResponse(c, from, to, accepted) ==
  /\ readyState[c] = "OPEN"
  /\ LET startGame == [type |-> "start_game", opponent |-> from]
         echo == [type |-> "challenge_response", from |-> from, to |-> to,
                  accepted |-> accepted]
     IN  out' = IF IsOpen(wsClients, readyState, to)
                THEN <<[to |-> wsClients[to], msg |-> echo]>> \o
                     (IF accepted
                      THEN <<[to |-> wsClients[to], msg |-> startGame],
                             [to |-> c, msg |-> startGame]>>
                      ELSE <<>>)
                ELSE <<>>
  /\ offered' = offered \ {<<to, from>>}
  /\ ev' = [type |-> "challenge_response", conn |-> c, from |-> from, to |-> to,
            accepted |-> accepted, wasOffered |-> <<to, from>> \in offered]
  /\ UNCHANGED <<onlineUsers, wsClients, readyState, username>>
  /\ UNCHANGED httpVars

\* the field f is present in the message
Has(data, f) == f \in DOMAIN data

\* messages of another type, and messages of the three types without one of
\* the fields of the type
OtherMessages ==
  {[type |-> "logout"], [type |-> "login"]}
    \cup {[type |-> "challenge", from |-> a] : a \in Users}
    \cup {[type |-> "challenge", to |-> b] : b \in Users}
    \cup {[type |-> "challenge_response", from |-> a, accepted |-> TRUE] : a \in Users}
    \cup {[type |-> "challenge_response", to |-> b, accepted |-> TRUE] : b \in Users}
    \cup {[type |-> "challenge_response", from |-> a, to |-> b] : a \in Users, b \in Users}

\* ws.on('message') with such a message.  The tests of the login and of the
\* challenge branch fail; the test of the challenge_response branch,
\* `data.from && data.to !== undefined`, does not look at `accepted`, which
\* then reads as undefined: the response is passed on as a rejection.
WsOther(c, data) ==
  /\ readyState[c] = "OPEN"
  /\ ~(data.type = "login" /\ Has(data, "username"))
  /\ ~(data.type = "challenge" /\ Has(data, "from") /\ Has(data, "to"))
  /\ IF data.type = "challenge_response" /\ Has(data, "from") /\ Has(data, "to")
     THEN /\ out' = IF IsOpen(wsClients, readyState, data.to)
                    THEN <<[to |-> wsClients[data.to],
                            msg |-> [type |-> "challenge_response",
                                     from |-> data.from, to |-> data.to]]>>
                    ELSE <<>>
          /\ offered' = offered \ {<<data.to, data.from>>}
     ELSE /\ out' = <<>>
          /\ UNCHANGED offered
  /\ ev' = [type |-> "other", conn |-> c, data |-> data]
  /\ UNCHANGED <<onlineUsers, wsClients, readyState, username>>
  /\ UNCHANGED httpVars

\* The peer starts the closing handshake: the socket is CLOSING until its
\* 'close' event is emitted; no handler of the server runs.
BeginClose(c) ==
  /\ readyState[c] = "OPEN"
  /\ readyState' = [readyState EXCEPT ![c] = "CLOSING"]
  /\ ev' = [type |-> "closing", conn |-> c]
  /\ out' = <<>>
  /\ UNCHANGED <<onlineUsers, wsClients, username, offered>>
  /\ UNCHANGED httpVars

\* ws.on('close')
Close(c) ==
  /\ readyState[c] \in {"OPEN", "CLOSING"}
  /\ readyState' = [readyState EXCEPT ![c] = "CLOSED"]
  /\ IF username[c] # Null
     THEN /\ onlineUsers' = Drop(onlineUsers, {username[c]})
          /\ wsClients' = Drop(wsClients, {username[c]})
          /\ out' = broadcastOnlineUsers(onlineUsers', readyState')
     ELSE /\ UNCHANGED <<onlineUsers, wsClients>>
          /\ out' = <<>>
  /\ ev' = [type |-> "close", conn |-> c, username |-> username[c],
            owned |-> userId(c) \in DOMAIN onlineUsers]
  /\ UNCHANGED <<username, offered>>
  /\ UNCHANGED httpVars

\* app.post('/api/login') of user u with valid credentials (with invalid ones
\* the route answers 401 and touches nothing).  No middleware attaches a
\* socket to the request, so (req as any).ws is undefined and the routing
\* entry of the user reads as absent afterwards.
HttpLogin(u) ==
  /\ onlineUsers' = Put(onlineUsers, DbId(u), [id |-> DbId(u), username |-> u])
  /\ wsClients' = Drop(wsClients, {u})
  /\ out' = broadcastOnlineUsers(onlineUsers', readyState)
  /\ ev' = [type |-> "http_login", username |-> u]
  /\ UNCHANGED <<readyState, username, offered>>
  /\ UNCHANGED httpVars

\* Object.keys(onlineUsers).find(...): integer-like keys come first, in
\* ascending order, then the other keys.
FindKey(ou, u) ==
  LET match == {k \in DOMAIN ou : ou[k].username = u}
  IN  IF match \cap IntegerKeys # {}
      THEN CHOOSE k \in match \cap IntegerKeys : TRUE
      ELSE CHOOSE k \in match : TRUE

\* app.post('/api/logout') for the authenticated user u
HttpLogout(u) ==
  /\ IF \E k \in DOMAIN onlineUsers : onlineUsers[k].username = u
     THEN /\ onlineUsers' = Drop(onlineUsers, {FindKey(onlineUsers, u)})
          /\ wsClients' = Drop(wsClients, {u})
          /\ out' = broadcastOnlineUsers(onlineUsers', readyState)
     ELSE /\ UNCHANGED <<onlineUsers, wsClients>>
          /\ out' = <<>>
  /\ ev' = [type |-> "http_logout", username |-> u,
            found |-> \E k \in DOMAIN onlineUsers : onlineUsers[k].username = u]
  /\ UNCHANGED <<readyState, username, offered>>
  /\ UNCHANGED httpVars

\* the `to` of a message that is the body of an HTTP response, not a socket
HttpCaller == 0

\* app.get('/api/online-users') with a valid token: res.json(users)
HttpOnlineUsers ==
  /\ out' = <<[to |-> HttpCaller,
               msg |-> [type |-> "online-users", users |-> ObjectValues(onlineUsers)]]>>
  /\ ev' = [type |-> "http_online_users"]
  /\ UNCHANGED <<onlineUsers, wsClients, readyState, username, offered>>
  /\ UNCHANGED httpVars

PresenceNext ==
  \/ \E c \in Conns : Connect(c)
  \/ \E c \in Conns, u \in Users : WsLogin(c, u)
  \/ \E c \in Conns, a \in Users, b \in Users : WsChallenge(c, a, b)
  \/ \E c \in Conns, a \in Users, b \in Users, acc \in BOOLEAN :
       WsChallengeResponse(c, a, b, acc)
  \/ \E c \in Conns, d \in OtherMessages : WsOther(c, d)
  \/ \E c \in Conns : BeginClose(c)
  \/ \E c \in Conns : Close(c)
  \/ \E u \in Users : HttpLogin(u)
  \/ \E u \in Users : HttpLogout(u)
  \/ HttpOnlineUsers

(***************************************************************************)
(* Move broker: strings                                                    *)
(*                                                                         *)
(* A string is a sequence of tokens; ": " is a token of its own and no     *)
(* other token contains it or starts with "Game over".                     *)
(***************************************************************************)
Sep == ": "

Undefined == <<"#undefined">>

\* `${x}` in a template literal
Interpolate(x) == IF x = Undefined THEN <<"undefined">> ELSE x

\* x || fallback, for a string or undefined x
OrElse(x, fallback) == IF x = Undefined \/ x = <<>> THEN fallback ELSE x

\* s.startsWith('Game over')
StartsWithGameOver(s) == Len(s) >= 1 /\ s[1] = "Game over"

\* s.split(': ')[1]
SplitSecond(s) ==
  LET seps == {i \in 1..Len(s) : s[i] = Sep}
  IN  IF seps = {} THEN Undefined
      ELSE LET i == CHOOSE x \in seps : \A y \in seps : x <= y
               later == {j \in seps : j > i}
               j == IF later = {} THEN Len(s) + 1
                    ELSE CHOOSE x \in later : \A y \in later : x <= y
           IN  SubSeq(s, i + 1, j - 1)

(***************************************************************************)
(* Move broker: inputs                                                     *)
(***************************************************************************)
\* number of HTTP requests that can be suspended at an await at once
NumReqs == 2

Slots == 1..NumReqs

Boards == {"startpos", "midgame"}

Opponents == {"stockfish", "chess_tune", "human", "other"}

\* moves in the notation of the remote service (SAN) and of the engine (UCI)
SanMoves == {"Nf3", "Qh5"}

UciMoves == {"g1f3", "d1h5"}

\* chess.js: the moves it accepts in a position, and the move object it returns
LegalMoves(board) ==
  IF board = "startpos" THEN {"Nf3", "g1f3"} ELSE {"Nf3", "g1f3", "Qh5", "d1h5"}

MoveObject(m) ==
  IF m \in {"Nf3", "g1f3"}
  THEN [from |-> "g1", to |-> "f3", promotion |-> Undefined]
  ELSE [from |-> "d1", to |-> "h5", promotion |-> Undefined]

\* what the remote service may answer to GET /get_move
Results == {<<"draw">>, <<"1-0", Sep, "checkmate">>, Undefined}

Messages == {<<"illegal position">>, <<"Game over", Sep, "draw">>, Undefined}

RemoteReplies ==
  [status : {"game_over"}, result : Results]
    \cup [status : {"ok"}, move : SanMoves, new_fen : Boards]
    \cup [status : {"error"}, message : Messages]
    \cup [status : {"unexpected"}]
    \cup [status : {"#transport"}, message : {<<"connect ECONNREFUSED">>}]

RECURSIVE Gcd(_, _)
Gcd(a, b) == IF b = 0 THEN a ELSE Gcd(b, a % b)

Abs(n) == IF n < 0 THEN 0 - n ELSE n

\* the number n / d, in lowest terms
Frac(n, d) == LET g == Gcd(Abs(n), d) IN <<n \div g, d \div g>>

Zero == Frac(0, 1)

\* x > 0, for a number x
Positive(x) == x[1] > 0

\* req.body.depth: a JSON value with its typeof; `value` is the number the
\* comparison `depth > 0` converts it to (the string "5" converts to 5)
DepthInputs ==
  {[typeof |-> "number", value |-> Zero],
   [typeof |-> "number", value |-> Frac(2, 1)],
   [typeof |-> "number", value |-> Frac(0 - 3, 1)],
   [typeof |-> "number", value |-> Frac(1, 2)],
   [typeof |-> "string", value |-> Frac(5, 1)]}

\* the commands written to the engine subprocess
Ucinewgame(r) == [cmd |-> "ucinewgame", slot |-> r]

Setoption(r, value) == [cmd |-> "setoption", slot |-> r, name |-> "Depth", value |-> value]

Position(r, board) == [cmd |-> "position", slot |-> r, board |-> board]

Go(r, depth) == [cmd |-> "go", slot |-> r, depth |-> depth]

\* axios.get(`${CHESS_TUNE_URL}/get_move`, { params: { fen: board } })
AxiosGet(r, board) == [cmd |-> "get_move", slot |-> r, fen |-> board]

\* axios.post(`${CHESS_TUNE_URL}/init`)
AxiosPostInit(r) == [cmd |-> "init", slot |-> r]

\* axios.post(`${CHESS_TUNE_URL}/move`, { move })
AxiosPostMove(r, move) == [cmd |-> "move", slot |-> r, move |-> move]

\* the number that is not a number
NaN == <<0, 0>>

\* the largest number of info lines a search emits
MaxInfo == 2

\* result.info: the items node-uci collected from the info lines of a search.
\* An item is an object, with or without a score; a score value is a numeral
\* (of `value` centipawns) or some other text.
InfoItems ==
  {[typeof |-> "object", score |-> TRUE, numeric |-> TRUE, value |-> 35],
   [typeof |-> "object", score |-> TRUE, numeric |-> TRUE, value |-> 0 - 120],
   [typeof |-> "object", score |-> TRUE, numeric |-> FALSE, value |-> 0],
   [typeof |-> "object", score |-> FALSE, numeric |-> FALSE, value |-> 0]}

Infos == UNION {[1..n -> InfoItems] : n \in 0..MaxInfo}

\* Variant that reads the first info line instead of the last.  C21 must tell
\* it from the code.
LastItem_First(info) ==
  IF Len(info) = 0
  THEN [typeof |-> "undefined", score |-> FALSE, numeric |-> FALSE, value |-> 0]
  ELSE info[1]

\* result.info[result.info.length - 1]
LastItem(info) ==
  IF Len(info) = 0
  THEN [typeof |-> "undefined", score |-> FALSE, numeric |-> FALSE, value |-> 0]
  ELSE info[Len(info)]

\* parseFloat(score.value)
ParseFloat(item) == IF item.numeric THEN Frac(item.value, 1) ELSE NaN

\* x / 100
DivideBy100(x) == IF x = NaN THEN NaN ELSE Frac(x[1], x[2] * 100)

\* the evaluation parsed from the info of a search: the score of the last
\* item if that is an object with a score, else 0
Evaluation(info) ==
  LET lastItem == LastItem(info)
  IN  IF lastItem.typeof = "object" /\ lastItem.score
      THEN DivideBy100(ParseFloat(lastItem))
      ELSE Zero

(***************************************************************************)
(* Move broker: handlers                                                   *)
(***************************************************************************)
Idle == [pc |-> "idle"]

NoReply == [of |-> "none"]

NoResp == [status |-> 0]

HttpInit ==
  /\ currentOpponent = Null
  /\ searchDepth = Frac(10, 1)
  /\ enginePosition = Null
  /\ req = [r \in Slots |-> Idle]
  /\ resp = [r \in Slots |-> NoResp]
  /\ sent = <<>>
  /\ reply = NoReply

Free(r) == req[r].pc \in {"idle", "done"}

\* a new request runs in the first slot that holds no suspended request
Fresh(r) == Free(r) /\ \A s \in Slots : s < r => ~Free(s)

\* res.json(...) / res.status(...).json(...): the request is over.  `cause` and
\* `result` keep, for the properties, why it ended and what the remote
\* service had answered.
RespondWith(r, kind, cause, result, response) ==
  /\ req' = [req EXCEPT ![r] = [pc |-> "done", kind |-> kind, cause |-> cause,
                                result |-> result]]
  /\ resp' = [resp EXCEPT ![r] = response]

Respond(r, cause, response) == RespondWith(r, req[r].kind, cause, Undefined, response)

RespondNow(r, kind, cause, response) == RespondWith(r, kind, cause, Undefined, response)

Suspend(r, q) ==
  /\ req' = [req EXCEPT ![r] = q]
  /\ resp' = [resp EXCEPT ![r] = NoResp]

Failure(message) == [status |-> 500, body |-> [error |-> message]]

\* the catch block of /api/get_move
GetMoveCatch(message) ==
  IF StartsWithGameOver(message)
  THEN [status |-> 200, body |-> [error |-> SplitSecond(message)]]
  ELSE Failure(message)

\* the catch blocks of /api/suggest and /api/evaluate
PlainCatch(message) == Failure(message)

Catch(kind, message) ==
  IF kind = "get_move" THEN GetMoveCatch(message) ELSE PlainCatch(message)

\* app.post('/api/new_game'), up to its first await.  `previous` keeps, for the
\* properties, the opponent that was stored when the request arrived.
NewGame(r, opponent) ==
  /\ Fresh(r)
  /\ currentOpponent' = opponent
  /\ Suspend(r, IF opponent = "chess_tune"
                THEN [pc |-> "awaitInit", kind |-> "new_game",
                      previous |-> currentOpponent]
                ELSE [pc |-> "awaitNewgame", kind |-> "new_game"])
  /\ sent' = IF opponent = "chess_tune" THEN <<AxiosPostInit(r)>> ELSE <<Ucinewgame(r)>>
  /\ UNCHANGED <<searchDepth, enginePosition>>
  /\ reply' = NoReply
  /\ UNCHANGED presenceVars

\* the remote service answers POST /init, or the call fails
InitReply(r, ok) ==
  /\ req[r].pc = "awaitInit"
  /\ IF ok
     THEN /\ Suspend(r, [pc |-> "awaitNewgame", kind |-> "new_game"])
          /\ sent' = <<Ucinewgame(r)>>
     ELSE /\ Respond(r, "remote_unavailable",
                     [status |-> 500, body |-> [success |-> FALSE,
                                                error |-> <<"Failed to start new game">>]])
          /\ sent' = <<>>
  /\ UNCHANGED <<currentOpponent, searchDepth, enginePosition>>
  /\ reply' = [of |-> "init", ok |-> ok]
  /\ UNCHANGED presenceVars

\* engine.ucinewgame() resolves
NewGameAck(r) ==
  /\ req[r].pc = "awaitNewgame"
  /\ Respond(r, "ok", [status |-> 200, body |-> [success |-> TRUE]])
  /\ sent' = <<>>
  /\ UNCHANGED <<currentOpponent, searchDepth, enginePosition>>
  /\ reply' = NoReply
  /\ UNCHANGED presenceVars

\* app.post('/api/end_game')
EndGame(r) ==
  /\ Fresh(r)
  /\ currentOpponent' = Null
  /\ RespondNow(r, "end_game", "ok", [status |-> 200, body |-> [success |-> TRUE]])
  /\ sent' = <<>>
  /\ UNCHANGED <<searchDepth, enginePosition>>
  /\ reply' = NoReply
  /\ UNCHANGED presenceVars

\* Variant of /api/set-depth without the typeof test: a numeric string passes
\* `depth > 0`.  C17 must tell it from the code.
SetDepth_NoTypeofTest(r, depth) ==
  /\ Fresh(r)
  /\ IF Positive(depth.value)
     THEN /\ searchDepth' = depth.value
          /\ Suspend(r, [pc |-> "awaitSetoption", kind |-> "set_depth"])
          /\ sent' = <<Setoption(r, depth.value)>>
     ELSE /\ UNCHANGED searchDepth
          /\ RespondNow(r, "set_depth", "invalid",
                        [status |-> 400, body |-> [success |-> FALSE,
                                                   error |-> <<"Invalid depth value">>]])
          /\ sent' = <<>>
  /\ UNCHANGED <<currentOpponent, enginePosition>>
  /\ reply' = NoReply
  /\ UNCHANGED presenceVars

\* app.post('/api/set-depth'), up to its await
SetDepth(r, depth) ==
  /\ Fresh(r)
  /\ IF depth.typeof = "number" /\ Positive(depth.value)
     THEN /\ searchDepth' = depth.value
          /\ Suspend(r, [pc |-> "awaitSetoption", kind |-> "set_depth"])
          /\ sent' = <<Setoption(r, depth.value)>>
     ELSE /\ UNCHANGED searchDepth
          /\ RespondNow(r, "set_depth", "invalid",
                        [status |-> 400, body |-> [success |-> FALSE,
                                                   error |-> <<"Invalid depth value">>]])
          /\ sent' = <<>>
  /\ UNCHANGED <<currentOpponent, enginePosition>>
  /\ reply' = NoReply
  /\ UNCHANGED presenceVars

\* getStockfishMove / getStockfishEvaluation, up to `await engine.position(board)`:
\* the position command is written to the engine.
EnginePosition(r, kind, fn, input, board, move) ==
  /\ enginePosition' = board
  /\ sent' = <<Position(r, board)>>
  /\ Suspend(r, [pc |-> "awaitPosition", kind |-> kind, fn |-> fn, board |-> board,
                 positioned |-> board, input |-> input, move |-> move])

\* Variant of /api/get_move whose dispatch sends every other kind of opponent
\* to the engine.  C29 must tell it from the code.
GetMove_DefaultIsEngine(r, board) ==
  /\ Fresh(r)
  /\ IF currentOpponent = Null
     THEN /\ RespondNow(r, "get_move", "no_opponent",
                 GetMoveCatch(<<"No opponent selected. Please start a new game first.">>))
          /\ UNCHANGED enginePosition /\ sent' = <<>>
     ELSE IF currentOpponent = "stockfish"
     THEN EnginePosition(r, "get_move", "getStockfishMove", board, board, Undefined)
     ELSE IF currentOpponent = "chess_tune"
     THEN /\ Suspend(r, [pc |-> "awaitRemote", kind |-> "get_move", board |-> board])
          /\ UNCHANGED enginePosition /\ sent' = <<AxiosGet(r, board)>>
     ELSE IF currentOpponent = "human"
     THEN /\ RespondNow(r, "get_move", "bad_opponent",
                 GetMoveCatch(<<"Human moves should be handled client-side">>))
          /\ UNCHANGED enginePosition /\ sent' = <<>>
     ELSE EnginePosition(r, "get_move", "getStockfishMove", board, board, Undefined)
  /\ UNCHANGED <<currentOpponent, searchDepth>>
  /\ reply' = NoReply
  /\ UNCHANGED presenceVars

\* Variant of /api/get_move without the test of the stored opponent: it uses
\* the engine when none is stored.  C30 must tell it from the code.
GetMove_NoOpponentIsEngine(r, board) ==
  /\ Fresh(r)
  /\ IF currentOpponent \in {Null, "stockfish"}
     THEN EnginePosition(r, "get_move", "getStockfishMove", board, board, Undefined)
     ELSE IF currentOpponent = "chess_tune"
     THEN /\ Suspend(r, [pc |-> "awaitRemote", kind |-> "get_move", board |-> board])
          /\ UNCHANGED enginePosition /\ sent' = <<AxiosGet(r, board)>>
     ELSE IF currentOpponent = "human"
     THEN /\ RespondNow(r, "get_move", "bad_opponent",
                 GetMoveCatch(<<"Human moves should be handled client-side">>))
          /\ UNCHANGED enginePosition /\ sent' = <<>>
     ELSE /\ RespondNow(r, "get_move", "bad_opponent",
                 GetMoveCatch(<<"Invalid opponent type">>))
          /\ UNCHANGED enginePosition /\ sent' = <<>>
  /\ UNCHANGED <<currentOpponent, searchDepth>>
  /\ reply' = NoReply
  /\ UNCHANGED presenceVars

\* app.post('/api/get_move'), up to its first await
GetMove(r, board) ==
  /\ Fresh(r)
  /\ IF currentOpponent = Null
     THEN /\ RespondNow(r, "get_move", "no_opponent",
                 GetMoveCatch(<<"No opponent selected. Please start a new game first.">>))
          /\ UNCHANGED enginePosition /\ sent' = <<>>
     ELSE IF currentOpponent = "stockfish"
     THEN EnginePosition(r, "get_move", "getStockfishMove", board, board, Undefined)
     ELSE IF currentOpponent = "chess_tune"
     THEN /\ Suspend(r, [pc |-> "awaitRemote", kind |-> "get_move", board |-> board])
          /\ UNCHANGED enginePosition /\ sent' = <<AxiosGet(r, board)>>
     ELSE IF currentOpponent = "human"
     THEN /\ RespondNow(r, "get_move", "bad_opponent",
                 GetMoveCatch(<<"Human moves should be handled client-side">>))
          /\ UNCHANGED enginePosition /\ sent' = <<>>
     ELSE /\ RespondNow(r, "get_move", "bad_opponent",
                 GetMoveCatch(<<"Invalid opponent type">>))
          /\ UNCHANGED enginePosition /\ sent' = <<>>
  /\ UNCHANGED <<currentOpponent, searchDepth>>
  /\ reply' = NoReply
  /\ UNCHANGED presenceVars

\* Variant of the remote adapter without the legality test of the remote move.
\* C24 must tell it from the code.
RemoteReply_NoLegalityTest(r, data) ==
  /\ req[r].pc = "awaitRemote"
  /\ IF data.status = "#transport"
     THEN /\ Respond(r, "remote_unavailable", GetMoveCatch(data.message))
          /\ UNCHANGED enginePosition /\ sent' = <<>>
     ELSE IF data.status = "game_over"
     THEN /\ RespondWith(r, "get_move", "game_over", data.result,
                         GetMoveCatch(<<"Game over", Sep>> \o Interpolate(data.result)))
          /\ UNCHANGED enginePosition /\ sent' = <<>>
     ELSE IF data.status = "ok"
     THEN EnginePosition(r, "get_move", "getStockfishEvaluation", req[r].board, data.new_fen,
                         MoveObject(data.move))
     ELSE IF data.status = "error"
     THEN /\ Respond(r, "remote_error",
                     GetMoveCatch(OrElse(data.message, <<"Unknown error from ChessTune">>)))
          /\ UNCHANGED enginePosition /\ sent' = <<>>
     ELSE /\ Respond(r, "remote_unexpected",
                     GetMoveCatch(<<"Unexpected response from ChessTune">>))
          /\ UNCHANGED enginePosition /\ sent' = <<>>
  /\ UNCHANGED <<currentOpponent, searchDepth>>
  /\ reply' = [of |-> "remote", slot |-> r, data |-> data]
  /\ UNCHANGED presenceVars

\* Variant of the remote adapter that passes the algebraic move on as it came.
\* C25 must tell it from the code.
RemoteReply_KeepsSan(r, data) ==
  /\ req[r].pc = "awaitRemote"
  /\ IF data.status = "#transport"
     THEN /\ Respond(r, "remote_unavailable", GetMoveCatch(data.message))
          /\ UNCHANGED enginePosition /\ sent' = <<>>
     ELSE IF data.status = "game_over"
     THEN /\ RespondWith(r, "get_move", "game_over", data.result,
                         GetMoveCatch(<<"Game over", Sep>> \o Interpolate(data.result)))
          /\ UNCHANGED enginePosition /\ sent' = <<>>
     ELSE IF data.status = "ok"
     THEN IF data.move \in LegalMoves(req[r].board)
          THEN EnginePosition(r, "get_move", "getStockfishEvaluation", req[r].board, data.new_fen,
                              [san |-> data.move])
          ELSE /\ Respond(r, "invalid_remote_move",
                          GetMoveCatch(<<"Invalid move received from ChessTune">>))
               /\ UNCHANGED enginePosition /\ sent' = <<>>
     ELSE IF data.status = "error"
     THEN /\ Respond(r, "remote_error",
                     GetMoveCatch(OrElse(data.message, <<"Unknown error from ChessTune">>)))
          /\ UNCHANGED enginePosition /\ sent' = <<>>
     ELSE /\ Respond(r, "remote_unexpected",
                     GetMoveCatch(<<"Unexpected response from ChessTune">>))
          /\ UNCHANGED enginePosition /\ sent' = <<>>
  /\ UNCHANGED <<currentOpponent, searchDepth>>
  /\ reply' = [of |-> "remote", slot |-> r, data |-> data]
  /\ UNCHANGED presenceVars

\* Variant of the remote adapter that calls the remote service again when the
\* call failed.  C27 must tell it from the code.
RemoteReply_Retries(r, data) ==
  /\ req[r].pc = "awaitRemote"
  /\ IF data.status = "#transport"
     THEN /\ Suspend(r, req[r])
          /\ UNCHANGED enginePosition /\ sent' = <<AxiosGet(r, req[r].board)>>
     ELSE IF data.status = "game_over"
     THEN /\ RespondWith(r, "get_move", "game_over", data.result,
                         GetMoveCatch(<<"Game over", Sep>> \o Interpolate(data.result)))
          /\ UNCHANGED enginePosition /\ sent' = <<>>
     ELSE IF data.status = "ok"
     THEN IF data.move \in LegalMoves(req[r].board)
          THEN EnginePosition(r, "get_move", "getStockfishEvaluation", req[r].board, data.new_fen,
                              MoveObject(data.move))
          ELSE /\ Respond(r, "invalid_remote_move",
                          GetMoveCatch(<<"Invalid move received from ChessTune">>))
               /\ UNCHANGED enginePosition /\ sent' = <<>>
     ELSE IF data.status = "error"
     THEN /\ Respond(r, "remote_error",
                     GetMoveCatch(OrElse(data.message, <<"Unknown error from ChessTune">>)))
          /\ UNCHANGED enginePosition /\ sent' = <<>>
     ELSE /\ Respond(r, "remote_unexpected",
                     GetMoveCatch(<<"Unexpected response from ChessTune">>))
          /\ UNCHANGED enginePosition /\ sent' = <<>>
  /\ UNCHANGED <<currentOpponent, searchDepth>>
  /\ reply' = [of |-> "remote", slot |-> r, data |-> data]
  /\ UNCHANGED presenceVars

\* getChessTuneMove after `await axios.get(...)`: the switch on data.status
RemoteReply(r, data) ==
  /\ req[r].pc = "awaitRemote"
  /\ IF data.status = "#transport"
     THEN /\ Respond(r, "remote_unavailable", GetMoveCatch(data.message))
          /\ UNCHANGED enginePosition /\ sent' = <<>>
     ELSE IF data.status = "game_over"
     THEN /\ RespondWith(r, "get_move", "game_over", data.result,
                         GetMoveCatch(<<"Game over", Sep>> \o Interpolate(data.result)))
          /\ UNCHANGED enginePosition /\ sent' = <<>>
     ELSE IF data.status = "ok"
     THEN IF data.move \in LegalMoves(req[r].board)
          THEN EnginePosition(r, "get_move", "getStockfishEvaluation", req[r].board, data.new_fen,
                              MoveObject(data.move))
          ELSE /\ Respond(r, "invalid_remote_move",
                          GetMoveCatch(<<"Invalid move received from ChessTune">>))
               /\ UNCHANGED enginePosition /\ sent' = <<>>
     ELSE IF data.status = "error"
     THEN /\ Respond(r, "remote_error",
                     GetMoveCatch(OrElse(data.message, <<"Unknown error from ChessTune">>)))
          /\ UNCHANGED enginePosition /\ sent' = <<>>
     ELSE /\ Respond(r, "remote_unexpected",
                     GetMoveCatch(<<"Unexpected response from ChessTune">>))
          /\ UNCHANGED enginePosition /\ sent' = <<>>
  /\ UNCHANGED <<currentOpponent, searchDepth>>
  /\ reply' = [of |-> "remote", slot |-> r, data |-> data]
  /\ UNCHANGED presenceVars

\* app.post('/api/suggest'), up to `await engine.setoption(...)`
Suggest(r, board) ==
  /\ Fresh(r)
  /\ Suspend(r, [pc |-> "awaitSetoption", kind |-> "suggest", board |-> board])
  /\ sent' = <<Setoption(r, searchDepth)>>
  /\ UNCHANGED <<currentOpponent, searchDepth, enginePosition>>
  /\ reply' = NoReply
  /\ UNCHANGED presenceVars

\* Variant of /api/suggest that dispatches on the stored opponent.  C31 must
\* tell it from the code.
SetoptionAck_UsesOpponent(r) ==
  /\ req[r].pc = "awaitSetoption"
  /\ IF req[r].kind = "set_depth"
     THEN /\ Respond(r, "ok", [status |-> 200, body |-> [success |-> TRUE]])
          /\ UNCHANGED enginePosition /\ sent' = <<>>
     ELSE IF currentOpponent = "chess_tune"
     THEN /\ Suspend(r, [pc |-> "awaitRemote", kind |-> "suggest", board |-> req[r].board])
          /\ UNCHANGED enginePosition /\ sent' = <<AxiosGet(r, req[r].board)>>
     ELSE EnginePosition(r, "suggest", "getStockfishMove", req[r].board, req[r].board,
                         Undefined)
  /\ UNCHANGED <<currentOpponent, searchDepth>>
  /\ reply' = NoReply
  /\ UNCHANGED presenceVars

\* engine.setoption(...) resolves
SetoptionAck(r) ==
  /\ req[r].pc = "awaitSetoption"
  /\ IF req[r].kind = "set_depth"
     THEN /\ Respond(r, "ok", [status |-> 200, body |-> [success |-> TRUE]])
          /\ UNCHANGED enginePosition /\ sent' = <<>>
     ELSE EnginePosition(r, "suggest", "getStockfishMove", req[r].board, req[r].board,
                         Undefined)
  /\ UNCHANGED <<currentOpponent, searchDepth>>
  /\ reply' = NoReply
  /\ UNCHANGED presenceVars

\* Variant of /api/evaluate that searches without sending the position first.
\* C20 must tell it from the code.
Evaluate_NoPosition(r, board) ==
  /\ Fresh(r)
  /\ Suspend(r, [pc |-> "awaitGo", kind |-> "evaluate", fn |-> "getStockfishEvaluation",
                 board |-> board, positioned |-> Null, input |-> board,
                 move |-> Undefined])
  /\ sent' = <<Go(r, searchDepth)>>
  /\ UNCHANGED <<currentOpponent, searchDepth, enginePosition>>
  /\ reply' = NoReply
  /\ UNCHANGED presenceVars

\* app.post('/api/evaluate'), up to its first await
Evaluate(r, board) ==
  /\ Fresh(r)
  /\ EnginePosition(r, "evaluate", "getStockfishEvaluation", board, board, Undefined)
  /\ UNCHANGED <<currentOpponent, searchDepth>>
  /\ reply' = NoReply
  /\ UNCHANGED presenceVars

\* Variant of the search with the default depth written into the call.  C18
\* must tell it from the code.
PositionAck_DefaultDepth(r) ==
  /\ req[r].pc = "awaitPosition"
  /\ Suspend(r, [req[r] EXCEPT !.pc = "awaitGo"])
  /\ sent' = <<Go(r, Frac(10, 1))>>
  /\ UNCHANGED <<currentOpponent, searchDepth, enginePosition>>
  /\ reply' = NoReply
  /\ UNCHANGED presenceVars

\* engine.position(board) resolves: `engine.go({ depth: searchDepth })` is written
PositionAck(r) ==
  /\ req[r].pc = "awaitPosition"
  /\ Suspend(r, [req[r] EXCEPT !.pc = "awaitGo"])
  /\ sent' = <<Go(r, searchDepth)>>
  /\ UNCHANGED <<currentOpponent, searchDepth, enginePosition>>
  /\ reply' = NoReply
  /\ UNCHANGED presenceVars

\* the response of a request whose call of getStockfishEvaluation returned
Scored(q, evaluation) ==
  IF q.kind = "evaluate"
  THEN [status |-> 200, body |-> [evaluation |-> evaluation]]
  ELSE [status |-> 200, body |-> [move |-> q.move, evaluation |-> evaluation]]

\* the centipawn scores of the info lines, if every line has a numeric score
LineScores(info) ==
  IF \A i \in DOMAIN info : info[i].typeof = "object" /\ info[i].score /\ info[i].numeric
  THEN [i \in DOMAIN info |-> info[i].value]
  ELSE <<>>

\* the search ended with an info line that is an object with a score
HasScore(info) ==
  /\ Len(info) > 0
  /\ info[Len(info)].typeof = "object"
  /\ info[Len(info)].score

\* Variant of the search answer without the legality test of the best move.
\* C23 and C24 must tell it from the code.
GoReply_NoLegalityTest(r, bestmove, info) ==
  /\ req[r].pc = "awaitGo"
  /\ LET q == req[r]
     IN  IF q.fn = "getStockfishEvaluation"
         THEN Respond(r, "ok", Scored(q, Evaluation(info)))
         ELSE Respond(r, "ok",
                      [status |-> 200,
                       body |-> [move |-> MoveObject(bestmove),
                                 evaluation |-> Evaluation(info)]])
  /\ sent' = <<>>
  /\ UNCHANGED <<currentOpponent, searchDepth, enginePosition>>
  /\ reply' = [of |-> "go", slot |-> r, bestmove |-> bestmove,
               scores |-> LineScores(info), scored |-> HasScore(info)]
  /\ UNCHANGED presenceVars

\* engine.go(...) resolves with the best move and the info lines of the search
GoReply(r, bestmove, info) ==
  /\ req[r].pc = "awaitGo"
  /\ LET q == req[r]
     IN  IF q.fn = "getStockfishEvaluation"
         THEN Respond(r, "ok", Scored(q, Evaluation(info)))
         ELSE IF bestmove \in LegalMoves(q.board)
         THEN Respond(r, "ok",
                      [status |-> 200,
                       body |-> [move |-> MoveObject(bestmove),
                                 evaluation |-> Evaluation(info)]])
         ELSE Respond(r, "illegal_engine_move",
                      Catch(q.kind, <<"Invalid move suggested by Stockfish">>))
  /\ sent' = <<>>
  /\ UNCHANGED <<currentOpponent, searchDepth, enginePosition>>
  /\ reply' = [of |-> "go", slot |-> r, bestmove |-> bestmove,
               scores |-> LineScores(info), scored |-> HasScore(info)]
  /\ UNCHANGED presenceVars

\* Variant of the scoring in which a rejected engine call fails the request.
\* C28 must tell it from the code.
EngineThrows_ScoringFails(r) ==
  /\ req[r].pc \in {"awaitPosition", "awaitGo"}
  /\ Respond(r, "engine_error", Catch(req[r].kind, <<"engine error">>))
  /\ sent' = <<>>
  /\ UNCHANGED <<currentOpponent, searchDepth, enginePosition>>
  /\ reply' = [of |-> "engine", error |-> TRUE]
  /\ UNCHANGED presenceVars

\* engine.position(...) or engine.go(...) rejects
EngineThrows(r) ==
  /\ req[r].pc \in {"awaitPosition", "awaitGo"}
  /\ LET q == req[r]
     IN  IF q.fn = "getStockfishEvaluation"
         THEN Respond(r, "ok", Scored(q, Zero))
         ELSE Respond(r, "engine_error", Catch(q.kind, <<"engine error">>))
  /\ sent' = <<>>
  /\ UNCHANGED <<currentOpponent, searchDepth, enginePosition>>
  /\ reply' = [of |-> "engine", error |-> TRUE]
  /\ UNCHANGED presenceVars

\* Variant of /api/move that forwards the move whatever opponent is stored.
\* C38 must tell it from the code.
Move_AlwaysForwards(r, san) ==
  /\ Fresh(r)
  /\ Suspend(r, [pc |-> "awaitMove", kind |-> "move"])
  /\ sent' = <<AxiosPostMove(r, san)>>
  /\ UNCHANGED <<currentOpponent, searchDepth, enginePosition>>
  /\ reply' = NoReply
  /\ UNCHANGED presenceVars

\* app.post('/api/move'), up to its first await
Move(r, san) ==
  /\ Fresh(r)
  /\ IF currentOpponent = "chess_tune"
     THEN /\ Suspend(r, [pc |-> "awaitMove", kind |-> "move"])
          /\ sent' = <<AxiosPostMove(r, san)>>
     ELSE /\ RespondNow(r, "move", "received",
                        [status |-> 200,
                         body |-> [success |-> TRUE,
                                   message |-> <<"Move received successfully">>]])
          /\ sent' = <<>>
  /\ UNCHANGED <<currentOpponent, searchDepth, enginePosition>>
  /\ reply' = NoReply
  /\ UNCHANGED presenceVars

\* the remote service answers POST /move, or the call fails
MoveReply(r, ok) ==
  /\ req[r].pc = "awaitMove"
  /\ IF ok
     THEN Respond(r, "applied",
                  [status |-> 200,
                   body |-> [success |-> TRUE,
                             message |-> <<"Move applied to ChessTune successfully">>]])
     ELSE Respond(r, "remote_unavailable",
                  [status |-> 500,
                   body |-> [success |-> FALSE,
                             error |-> <<"Failed to process the move">>]])
  /\ sent' = <<>>
  /\ UNCHANGED <<currentOpponent, searchDepth, enginePosition>>
  /\ reply' = [of |-> "move", ok |-> ok]
  /\ UNCHANGED presenceVars

HttpNext ==
  \/ \E r \in Slots, o \in Opponents : NewGame(r, o)
  \/ \E r \in Slots, ok \in BOOLEAN : InitReply(r, ok)
  \/ \E r \in Slots : NewGameAck(r)
  \/ \E r \in Slots : EndGame(r)
  \/ \E r \in Slots, d \in DepthInputs : SetDepth(r, d)
  \/ \E r \in Slots, b \in Boards : GetMove(r, b)
  \/ \E r \in Slots, d \in RemoteReplies : RemoteReply(r, d)
  \/ \E r \in Slots, b \in Boards : Suggest(r, b)
  \/ \E r \in Slots : SetoptionAck(r)
  \/ \E r \in Slots, b \in Boards : Evaluate(r, b)
  \/ \E r \in Slots : PositionAck(r)
  \/ \E r \in Slots, m \in UciMoves, i \in Infos : GoReply(r, m, i)
  \/ \E r \in Slots : EngineThrows(r)
  \/ \E r \in Slots, m \in SanMoves : Move(r, m)
  \/ \E r \in Slots, ok \in BOOLEAN : MoveReply(r, ok)

(***************************************************************************)
(* Specifications                                                          *)
(***************************************************************************)
Init == PresenceInit /\ HttpInit

Next == PresenceNext

Spec == Init /\ [][Next]_vars

HttpSpec == Init /\ [][HttpNext]_vars

(***************************************************************************)
(* Properties                                                              *)
(***************************************************************************)
Entries(u) == {k \in DOMAIN onlineUsers : onlineUsers[k].username = u}

LoggedIn(u) == {c \in Conns : readyState[c] = "OPEN" /\ username[c] = u}

StartGames(cs) ==
  Cardinality({i \in DOMAIN out : out[i].to \in cs /\ out[i].msg.type = "start_game"})

NoDuplicates(users) ==
  \A x \in users, y \in users : x.username = y.username => x = y

\* C1: after any sequence of WebSocket logins, HTTP logins, closes and
\* logouts, the presence list holds no two entries with the same username.
C1_NoDuplicateUsernames == NoDuplicates(ObjectValues(onlineUsers))

InFlight == {r \in Slots : req[r].pc \in {"awaitPosition", "awaitGo"}}

\* C2: at most one engine request (a position command and its search) is in
\* flight on the engine handle at any time.
C2_OneEngineRequestInFlight == Cardinality(InFlight) <= 1

\* C3: when B, on its own connection, accepts an offered challenge of A
\* (A # B) and both are connected (in the presence list, with an open
\* connection logged in under their name), exactly one start_game goes to
\* A's connection, exactly one to B's and none to any other connection.
C3_AcceptStartsGameForBoth ==
  (/\ ev.type = "challenge_response"
   /\ ev.accepted
   /\ ev.wasOffered
   /\ ev.from # ev.to
   /\ username[ev.conn] = ev.from
   /\ Entries(ev.from) # {}
   /\ Entries(ev.to) # {}
   /\ LoggedIn(ev.to) # {})
  => /\ StartGames(LoggedIn(ev.to)) = 1
     /\ StartGames({ev.conn}) = 1
     /\ StartGames(Conns \ (LoggedIn(ev.to) \cup {ev.conn})) = 0

\* C4: once a challenge of A to B has been resolved by a challenge_response
\* of B, a second identical challenge_response of B produces no start_game.
C4_SecondResponseStartsNothing ==
  [][(/\ ev.type = "challenge_response"
      /\ ev.wasOffered
      /\ username[ev.conn] = ev.from
      /\ LoggedIn(ev.to) # {}
      /\ ev'.type = "challenge_response"
      /\ ev'.conn = ev.conn
      /\ ev'.from = ev.from
      /\ ev'.to = ev.to
      /\ ev'.accepted = ev.accepted)
     => (\A i \in DOMAIN out' : out'[i].msg.type # "start_game")]_vars

\* C5: a start_game is sent only by a challenge_response, and the response
\* of a connected B to a connected A starts a game only if it answers an
\* offered, not yet answered challenge of A to B.
C5_StartGameOnlyWhenOffered ==
  (\E i \in DOMAIN out : out[i].msg.type = "start_game")
  => /\ ev.type = "challenge_response"
     /\ (username[ev.conn] = ev.from /\ ev.from # ev.to /\ LoggedIn(ev.to) # {})
          => ev.wasOffered

\* C6: after the close event of a connection that had logged in and still
\* owned its presence entry, the presence list no longer holds that entry.
C6_CloseRemovesEntry ==
  (ev.type = "close" /\ ev.username # Null /\ ev.owned)
  => userId(ev.conn) \notin DOMAIN onlineUsers

\* C7: a username has a routing connection exactly when it has a presence
\* entry, and that connection is the live connection whose id the entry has.
C7_RoutingMatchesPresence ==
  \A u \in Users :
    /\ (u \in DOMAIN wsClients) <=> (Entries(u) # {})
    /\ u \in DOMAIN wsClients =>
         /\ readyState[wsClients[u]] \in {"OPEN", "CLOSING"}
         /\ Entries(u) = {userId(wsClients[u])}

\* C8: no broadcast triggered by a join (WebSocket login or HTTP login)
\* carries two entries for one username.
C8_JoinBroadcastsNoDuplicates ==
  ev.type \in {"login", "http_login"}
  => \A i \in DOMAIN out :
       out[i].msg.type = "onlineUsers" => NoDuplicates(out[i].msg.users)

Failures ==
  {"no_opponent", "bad_opponent", "remote_unavailable", "invalid_remote_move",
   "remote_error", "remote_unexpected", "illegal_engine_move", "engine_error"}

Finished(r) == req[r].pc = "done" /\ req[r].kind = "get_move"

\* C9: a game_over answer of the remote service reaches the caller as a
\* game-over outcome that carries the result and differs from the response
\* of every failed move request.
C9_GameOverDistinctFromFailure ==
  \A r \in Slots :
    (Finished(r) /\ req[r].cause = "game_over")
    => /\ req[r].result # Undefined => resp[r].body.error = req[r].result
       /\ \A s \in Slots :
            (Finished(s) /\ req[s].cause \in Failures) => resp[s] # resp[r]

\* C10: a challenge that A sends to B (B # A) while B is in the presence list
\* and connected sends exactly one challenge_received{from: A}, to B's
\* connection, and nothing to any other connection.
C10_ChallengeReachesTargetOnly ==
  (/\ ev.type = "challenge"
   /\ username[ev.conn] = ev.from
   /\ ev.from # ev.to
   /\ ev.present
   /\ LoggedIn(ev.to) # {})
  => /\ Len(out) = 1
     /\ out[1].to \in LoggedIn(ev.to)
     /\ out[1].msg = [type |-> "challenge_received", from |-> ev.from]

\* C11: a challenge that A sends on its own connection to a user B (B # A)
\* with no presence entry sends nothing at all (no challenge_received to
\* anyone, no error to A), and a challenge_received is only ever sent by the
\* handler of the challenge itself, never later by a login of the target:
\* the offer is not queued.
C11_AbsentTargetDropsChallenge ==
  /\ (/\ ev.type = "challenge"
      /\ username[ev.conn] = ev.from
      /\ ev.from # ev.to
      /\ ~ev.present) => out = <<>>
  /\ (\E i \in DOMAIN out : out[i].msg.type = "challenge_received")
       => ev.type = "challenge"

\* C12: a rejecting challenge_response that B sends on its own connection to
\* A (A # B) sends at most one message, the challenge_response echo, and
\* sends it to a connection of A: no start_game, nothing to B's connection
\* and nothing to a third connection.
C12_RejectEchoesToChallengerOnly ==
  (/\ ev.type = "challenge_response"
   /\ ~ev.accepted
   /\ username[ev.conn] = ev.from
   /\ ev.from # ev.to)
  => /\ Len(out) <= 1
     /\ \A i \in DOMAIN out :
          /\ out[i].msg = [type |-> "challenge_response", from |-> ev.from,
                           to |-> ev.to, accepted |-> FALSE]
          /\ out[i].to \in LoggedIn(ev.to)
          /\ out[i].to # ev.conn

\* C13: an accepting challenge_response that B sends on its own connection to
\* A (A # B) delivers start_game to both or to neither: with no open
\* connection of A nothing at all is sent (nothing to B, no failure to B),
\* and B's connection gets a start_game exactly when a connection of A does.
C13_StartGameBothOrNeither ==
  (/\ ev.type = "challenge_response"
   /\ ev.accepted
   /\ username[ev.conn] = ev.from
   /\ ev.from # ev.to)
  => /\ LoggedIn(ev.to) = {} => out = <<>>
     /\ (StartGames({ev.conn}) > 0) <=> (StartGames(LoggedIn(ev.to)) > 0)

OpenConns(rs) == {c \in Conns : rs[c] = "OPEN"}

\* C14: a handler that changes the membership of the presence list (login,
\* close, logout) sends, in the same step, the full new presence list exactly
\* once to every open connection and nothing to a connection that is not open.
C14_MembershipChangeBroadcasts ==
  [][onlineUsers' # onlineUsers
     => /\ {out'[i].to : i \in DOMAIN out'} = OpenConns(readyState')
        /\ Len(out') = Cardinality(OpenConns(readyState'))
        /\ \A i \in DOMAIN out' :
             out'[i].msg = [type |-> "onlineUsers",
                            users |-> ObjectValues(onlineUsers')]]_vars

\* a logout removed an entry while one connection was open and another was
\* closing: the broadcast went to the open one only
C14_Witness ==
  /\ ev.type = "http_logout"
  /\ Len(out) = 1
  /\ \E c \in Conns : readyState[c] = "CLOSING"
  /\ \E c \in Conns : readyState[c] = "OPEN" /\ out[1].to = c

\* C15: a leave broadcasts only if it removed an entry: the close of a
\* connection that never logged in, or whose presence entry is no longer in
\* the registry, sends nothing, and neither does a logout that finds no entry.
C15_LeaveBroadcastsOnlyOnRemoval ==
  /\ (ev.type = "close" /\ (ev.username = Null \/ ~ev.owned)) => out = <<>>
  /\ (ev.type = "http_logout" /\ ~ev.found) => out = <<>>

\* C16: no presence list that leaves the server (in a broadcast, as the
\* initial list of a new connection, or as the answer of the who-is-online
\* query) holds two entries with the same username.
C16_ListsCollapseDuplicates ==
  \A i \in DOMAIN out :
    out[i].msg.type \in {"onlineUsers", "online-users"}
    => NoDuplicates(out[i].msg.users)

Accepted(d) == d.typeof = "number" /\ Positive(d.value)

\* after the step, slot r holds a set-depth request and held no suspended
\* request before it, and the step is a step of no other slot
DepthRequestIn(r) ==
  /\ Free(r)
  /\ req'[r].pc # "idle"
  /\ req'[r].kind = "set_depth"
  /\ \A s \in Slots \ {r} : req'[s] = req[s]
  /\ reply' = NoReply

\* C17: a set-depth request whose depth is 0, negative or not a number leaves
\* the stored depth as it was, writes nothing to the engine and is answered
\* with the invalid-value response.
C17_InvalidDepthRejected ==
  [][\A r \in Slots :
       DepthRequestIn(r)
       => \A d \in DepthInputs :
            (SetDepth(r, d) /\ (d.typeof # "number" \/ d.value[1] <= 0))
            => /\ searchDepth' = searchDepth
               /\ sent' = <<>>
               /\ resp'[r] = [status |-> 400,
                              body |-> [success |-> FALSE,
                                        error |-> <<"Invalid depth value">>]]]_vars

\* an invalid set-depth was answered while the depth set by an earlier request
\* was in force
C17_Witness ==
  /\ searchDepth = Frac(2, 1)
  /\ sent = <<>>
  /\ \E r \in Slots :
       /\ req[r].pc = "done" /\ req[r].kind = "set_depth" /\ req[r].cause = "invalid"
       /\ resp[r].status = 400

\* C18: an accepted set-depth with a positive integer n stores n; the stored
\* depth changes in no other step; and every search command carries the depth
\* stored when it is written, whichever request it serves.
C18_SearchesUseStoredDepth ==
  [][/\ \A r \in Slots :
          DepthRequestIn(r)
          => \A d \in DepthInputs :
               (SetDepth(r, d) /\ Accepted(d) /\ d.value[2] = 1)
               => searchDepth' = d.value
     /\ searchDepth' # searchDepth
          => \E r \in Slots, d \in DepthInputs : SetDepth(r, d) /\ Accepted(d)
     /\ \A i \in DOMAIN sent' :
          sent'[i].cmd = "go" => sent'[i].depth = searchDepth']_vars

\* a search of the scoring of a remote move runs at depth 2 after set-depth 2
C18_Witness ==
  /\ searchDepth = Frac(2, 1)
  /\ \E r \in Slots :
       /\ sent = <<Go(r, Frac(2, 1))>>
       /\ req[r].kind = "get_move" /\ req[r].fn = "getStockfishEvaluation"

\* C19: the stored search depth is always a positive integer, at least 1.
C19_DepthAtLeastOne == searchDepth[2] = 1 /\ searchDepth[1] >= 1

\* C20: every search command is written by a call that has written, before
\* it, a position command carrying the position the call was given.
C20_PositionBeforeSearch ==
  \A i \in DOMAIN sent :
    sent[i].cmd = "go"
    => LET q == req[sent[i].slot]
       IN  q.pc = "awaitGo" /\ q.positioned = q.board

\* a search is started for the midgame position after an earlier evaluate
\* call has ended
C20_Witness ==
  \E r \in Slots, s \in Slots :
    /\ sent = <<Go(r, searchDepth)>>
    /\ req[r].board = "midgame"
    /\ req[s].pc = "done" /\ req[s].kind = "evaluate"

\* the search of slot r, answered with best move m, lets the request succeed:
\* a scoring call always does, a move call does if the move is legal
Succeeds(r, m) ==
  req[r].fn = "getStockfishEvaluation" \/ m \in LegalMoves(req[r].board)

\* the last info line exists, is an object and has a score that is a numeral
LastScored(info) ==
  /\ Len(info) > 0
  /\ info[Len(info)].typeof = "object"
  /\ info[Len(info)].score
  /\ info[Len(info)].numeric

\* C21: the evaluation returned for a search is the score of the last info
\* line of that search divided by 100, whatever the earlier lines score.
C21_LastInfoLineScore ==
  (/\ reply.of = "go"
   /\ reply.scores # <<>>
   /\ resp[reply.slot].status = 200)
  => resp[reply.slot].body.evaluation = Frac(reply.scores[Len(reply.scores)], 100)

\* a search whose lines scored 35 and then -120 centipawns was answered with
\* the evaluation -1.2
C21_Witness ==
  /\ reply.of = "go"
  /\ reply.scores = <<35, 0 - 120>>
  /\ resp[reply.slot].status = 200
  /\ resp[reply.slot].body.evaluation = <<0 - 6, 5>>

\* C22: a search without info lines, or whose last info line has no score or
\* a score that is no numeral, still lets the request succeed, with the
\* evaluation exactly 0 (and, for a move request, with the move).
C22_MissingScoreGivesZero ==
  [][\A r \in Slots, m \in UciMoves, info \in Infos :
       (GoReply(r, m, info) /\ ~LastScored(info) /\ Succeeds(r, m))
       => /\ resp'[r].status = 200
          /\ resp'[r].body.evaluation = Zero
          /\ req[r].fn = "getStockfishMove" => resp'[r].body.move = MoveObject(m)]_vars

\* C23: when the best move of the engine is illegal in the input position of
\* a move request (get_move or suggest), the request fails: the response is
\* an error and carries neither a move nor an evaluation.
C23_IllegalEngineMoveFails ==
  [][\A r \in Slots :
       (/\ reply'.of = "go"
        /\ reply'.slot = r
        /\ req[r].fn = "getStockfishMove"
        /\ reply'.bestmove \notin LegalMoves(req[r].board))
       => /\ resp'[r].status = 500
          /\ DOMAIN resp'[r].body = {"error"}]_vars

\* the engine answered a search of the start position with d1h5, which is
\* illegal there, and the request failed
C23_Witness ==
  /\ reply.of = "go"
  /\ reply.bestmove = "d1h5"
  /\ req[reply.slot].cause = "illegal_engine_move"
  /\ resp[reply.slot].status = 500

\* the rules engine accepts the move object in the position
Accepts(board, move) == \E m \in LegalMoves(board) : MoveObject(m) = move

\* C24: every successful answer to a move request (get_move by the engine or
\* by the remote service, suggest) carries a move that the rules engine
\* accepts in the input position of the request.
C24_SuccessMoveIsLegal ==
  [][\A r \in Slots :
       (/\ req[r].pc \in {"awaitPosition", "awaitGo"}
        /\ req[r].kind \in {"get_move", "suggest"}
        /\ req'[r].pc = "done"
        /\ resp'[r].status = 200)
       => /\ "move" \in DOMAIN resp'[r].body
          /\ Accepts(req[r].input, resp'[r].body.move)]_vars

\* a move request was answered with the queen move d1-h5, which is legal in
\* the midgame position only
C24_Witness ==
  \E r \in Slots :
    /\ req[r].pc = "done" /\ req[r].kind = "get_move" /\ req[r].cause = "ok"
    /\ resp[r].status = 200
    /\ resp[r].body.move = MoveObject("Qh5")

\* C25: a remote answer with status ok whose move the rules engine accepts in
\* the input position is turned into the coordinate form (from, to,
\* promotion) of that move, and this is the move the request returns; if the
\* rules engine rejects the move, the request fails at once and nothing is
\* written to the engine.
C25_RemoteOkMoveConverted ==
  [][\A r \in Slots :
       /\ (/\ reply'.of = "remote"
           /\ reply'.slot = r
           /\ reply'.data.status = "ok")
          => IF reply'.data.move \in LegalMoves(req[r].board)
             THEN /\ req'[r].pc = "awaitPosition"
                  /\ DOMAIN req'[r].move = {"from", "to", "promotion"}
                  /\ req'[r].move = MoveObject(reply'.data.move)
             ELSE /\ req'[r].pc = "done"
                  /\ resp'[r].status = 500
                  /\ DOMAIN resp'[r].body = {"error"}
                  /\ sent' = <<>>
       /\ (/\ req[r].pc \in {"awaitPosition", "awaitGo"}
           /\ req[r].kind = "get_move"
           /\ req[r].fn = "getStockfishEvaluation"
           /\ req'[r].pc = "done")
          => resp'[r].body.move = req[r].move]_vars

\* the remote service answered Qh5 for the start position, where it is
\* illegal: the request failed and the engine was not asked
C25_Witness ==
  /\ reply.of = "remote"
  /\ reply.data.status = "ok"
  /\ reply.data.move = "Qh5"
  /\ req[reply.slot].cause = "invalid_remote_move"
  /\ resp[reply.slot].status = 500
  /\ sent = <<>>

\* C26: a remote answer with status error makes the move request fail with a
\* failure response that carries the message of the remote service (a default
\* message when it gave none) and no move.
C26_RemoteErrorIsFailure ==
  [][\A r \in Slots :
       (/\ reply'.of = "remote"
        /\ reply'.slot = r
        /\ reply'.data.status = "error")
       => /\ req'[r].pc = "done"
          /\ resp'[r].status = 500
          /\ DOMAIN resp'[r].body = {"error"}
          /\ resp'[r].body.error =
               (IF reply'.data.message = Undefined
                THEN <<"Unknown error from ChessTune">>
                ELSE reply'.data.message)]_vars

\* C27: a move request served by the remote adapter calls get_move of the
\* remote service exactly once, when the request starts and with its position;
\* when that call fails in transport the request fails at once, with the
\* message of the transport error, and no further call is made.
C27_OneRemoteCallNoRetry ==
  [][/\ \A i \in DOMAIN sent' :
          sent'[i].cmd = "get_move"
          => /\ Free(sent'[i].slot)
             /\ req'[sent'[i].slot].pc = "awaitRemote"
             /\ sent'[i].fen = req'[sent'[i].slot].board
             /\ Len(sent') = 1
     /\ \A r \in Slots :
          (Free(r) /\ req'[r].pc = "awaitRemote")
          => \E i \in DOMAIN sent' :
               sent'[i].cmd = "get_move" /\ sent'[i].slot = r
     /\ \A r \in Slots :
          (/\ reply'.of = "remote"
           /\ reply'.slot = r
           /\ reply'.data.status = "#transport")
          => /\ req'[r].pc = "done"
             /\ resp'[r].status = 500
             /\ resp'[r].body = [error |-> reply'.data.message]
             /\ sent' = <<>>]_vars

C27_Witness ==
  \E r \in Slots :
    /\ reply.of = "remote"
    /\ reply.slot = r
    /\ reply.data.status = "#transport"
    /\ req[r].pc = "done"
    /\ resp[r].status = 500

\* C28: when the remote service gave a legal move and the scoring of the new
\* position fails (an engine call is rejected, or the search gives no score),
\* the move request still succeeds, with that move and evaluation 0.
C28_ScoringFailureGivesZero ==
  [][\A r \in Slots :
       (/\ req[r].pc \in {"awaitPosition", "awaitGo"}
        /\ req[r].kind = "get_move"
        /\ req[r].fn = "getStockfishEvaluation"
        /\ req'[r].pc = "done"
        /\ \/ reply'.of = "engine"
           \/ /\ reply'.of = "go"
              /\ reply'.slot = r
              /\ ~reply'.scored)
       => /\ resp'[r].status = 200
          /\ resp'[r].body = [move |-> req[r].move, evaluation |-> Zero]]_vars

C28_Witness ==
  \E r \in Slots :
    /\ reply.of = "engine"
    /\ req[r].pc = "done"
    /\ req[r].kind = "get_move"
    /\ resp[r].status = 200
    /\ DOMAIN resp[r].body = {"move", "evaluation"}
    /\ resp[r].body.evaluation = Zero

\* a step in which a move request arrives in slot r
MoveRequestArrives(r) ==
  Free(r) /\ req'[r] # req[r] /\ req'[r].kind = "get_move"

EngineCommands == {"ucinewgame", "setoption", "position", "go"}

RemoteCalls == {"get_move", "init"}

\* C29: the dispatch of a move request on the stored kind of opponent changes
\* no state and contacts one backend at most: the engine alone for the local
\* engine, the remote service alone for the remote service, and for every
\* other kind the request fails at once and nothing is written to the engine
\* or asked of the remote service.
C29_DispatchByKind ==
  [][\A r \in Slots :
       (MoveRequestArrives(r) /\ currentOpponent # Null)
       => /\ UNCHANGED <<currentOpponent, searchDepth>>
          /\ currentOpponent = "stockfish"
               => /\ sent' # <<>>
                  /\ \A i \in DOMAIN sent' : sent'[i].cmd \in EngineCommands
                  /\ req'[r].fn = "getStockfishMove"
          /\ currentOpponent = "chess_tune"
               => /\ sent' # <<>>
                  /\ \A i \in DOMAIN sent' : sent'[i].cmd \in RemoteCalls
                  /\ req'[r].pc = "awaitRemote"
                  /\ UNCHANGED enginePosition
          /\ currentOpponent \notin {"stockfish", "chess_tune"}
               => /\ sent' = <<>>
                  /\ UNCHANGED enginePosition
                  /\ req'[r].pc = "done"
                  /\ resp'[r].status = 500
                  /\ DOMAIN resp'[r].body = {"error"}]_vars

C29_Witness ==
  \E r \in Slots :
    /\ currentOpponent = "other"
    /\ req[r].pc = "done"
    /\ req[r].kind = "get_move"
    /\ req[r].cause = "bad_opponent"
    /\ resp[r] = Failure(<<"Invalid opponent type">>)
    /\ sent = <<>>

StepOf(r, k) == req'[r].pc # "idle" /\ req'[r] # req[r] /\ req'[r].kind = k

\* C31: a suggestion is served by the local engine whatever opponent is
\* stored: it starts by writing the depth to the engine, every step of it
\* writes engine commands only, it never waits for the remote service, and it
\* ends on an answer (or a failure) of the engine.
C31_SuggestUsesEngineOnly ==
  [][\A r \in Slots :
       StepOf(r, "suggest")
       => /\ \A i \in DOMAIN sent' : sent'[i].cmd \in EngineCommands
          /\ req'[r].pc \in {"awaitSetoption", "awaitPosition", "awaitGo", "done"}
          /\ Free(r) => sent' = <<Setoption(r, searchDepth)>>
          /\ req'[r].pc \in {"awaitPosition", "awaitGo"}
               => req'[r].fn = "getStockfishMove"
          /\ req'[r].pc = "done" => reply'.of \in {"go", "engine"}
          /\ UNCHANGED currentOpponent]_vars

C31_Witness ==
  \E r \in Slots :
    /\ currentOpponent = "chess_tune"
    /\ req[r].pc = "done"
    /\ req[r].kind = "suggest"
    /\ reply.of = "go"
    /\ reply.slot = r
    /\ resp[r].status = 200
    /\ DOMAIN resp[r].body = {"move", "evaluation"}

\* C32: when B accepts, on its own connection, an offered challenge of A
\* (A # B) that is routed to a connection of A, the start_game that goes to the connection of B names A as the opponent and
\* the start_game that goes to any other connection names B.
C32_StartGameNamesTheOther ==
  (/\ ev.type = "challenge_response"
   /\ ev.accepted
   /\ ev.wasOffered
   /\ username[ev.conn] = ev.from
   /\ ev.from # ev.to
   /\ LoggedIn(ev.to) # {}
   /\ wsClients[ev.to] \in LoggedIn(ev.to))
  => \A i \in DOMAIN out :
       out[i].msg.type = "start_game"
       => out[i].msg.opponent = (IF out[i].to = ev.conn THEN ev.to ELSE ev.from)

\* C33: when a user who logged in on one connection and later on another one
\* loses the first, superseded, connection, the close leaves the presence
\* entries of the user and the routing of the user to the later connection as
\* they were.
C33_SupersededCloseKeepsUser ==
  [][\A c \in Conns :
       (/\ ev'.type = "close"
        /\ ev'.conn = c
        /\ username[c] # Null
        /\ username[c] \in DOMAIN wsClients
        /\ wsClients[username[c]] # c
        /\ wsClients[username[c]] \in LoggedIn(username[c]))
       => /\ onlineUsers' = onlineUsers
          /\ username[c] \in DOMAIN wsClients'
          /\ wsClients'[username[c]] = wsClients[username[c]]]_vars

\* C34: a search is started for a request only while the engine holds the
\* position of that request, so that the best move and the evaluation of the
\* request come from a search on its own position, also when two requests
\* for different positions overlap.
C34_SearchOnOwnPosition ==
  \A i \in DOMAIN sent :
    sent[i].cmd = "go" => enginePosition = req[sent[i].slot].board

\* C35: a challenge or a challenge_response that names X as its sender makes
\* the server send something only when the connection it arrived on is logged
\* in as X.
C35_SenderIsLoggedInAsFrom ==
  (ev.type \in {"challenge", "challenge_response"} /\ out # <<>>)
  => username[ev.conn] = ev.from

\* C36: when a new_game request fails (the init call to the remote service is
\* rejected and the failure is reported), the stored opponent is the one that
\* was stored before the request.
C36_FailedNewGameKeepsOpponent ==
  [][\A r \in Slots :
       (/\ req[r].pc = "awaitInit"
        /\ req'[r].pc = "done"
        /\ resp'[r].status = 500)
       => currentOpponent' = req[r].previous]_vars

\* C37: a move request is answered as a finished game (200 with the result in
\* `error`) only when the remote service answered game_over; a request that
\* ended on a remote error, an unexpected status or an engine failure gets the
\* failure response.
C37_OnlyGameOverReportedAsGameOver ==
  \A r \in Slots :
    Finished(r)
    => /\ (resp[r].status = 200 /\ DOMAIN resp[r].body = {"error"})
            => req[r].cause = "game_over"
       /\ req[r].cause \in Failures => resp[r].status = 500

\* C38: a move reported by the client is forwarded to the remote service, in
\* one call, exactly when the stored opponent is the remote service, and is
\* acknowledged at once otherwise; the remote service is told of a move in no
\* other step, and no step of the request changes the stored opponent or the
\* stored depth or writes to the engine.
C38_MoveForwardedIffRemote ==
  [][/\ \A r \in Slots :
          StepOf(r, "move")
          => /\ UNCHANGED <<currentOpponent, searchDepth, enginePosition>>
             /\ \A i \in DOMAIN sent' : sent'[i].cmd \notin EngineCommands
             /\ (Free(r) /\ currentOpponent = "chess_tune")
                  => /\ \E m \in SanMoves : sent' = <<AxiosPostMove(r, m)>>
                     /\ req'[r].pc = "awaitMove"
             /\ (Free(r) /\ currentOpponent # "chess_tune")
                  => /\ sent' = <<>>
                     /\ req'[r].pc = "done"
                     /\ resp'[r].status = 200
                     /\ resp'[r].body.success
     /\ \A i \in DOMAIN sent' :
          sent'[i].cmd = "move"
          => /\ currentOpponent = "chess_tune"
             /\ Free(sent'[i].slot)
             /\ req'[sent'[i].slot].kind = "move"]_vars

C38_Witness ==
  \E r \in Slots :
    /\ currentOpponent = "chess_tune"
    /\ reply = [of |-> "move", ok |-> TRUE]
    /\ req[r].pc = "done"
    /\ req[r].kind = "move"
    /\ req[r].cause = "applied"
    /\ resp[r].status = 200

\* C39: a WebSocket message of another type than login, challenge and
\* challenge_response, or of one of these types without a field of the type,
\* changes neither the presence list nor the routing table and makes the
\* server send nothing.
C39_OtherMessagesDoNothing ==
  [][ev'.type = "other"
     => /\ UNCHANGED <<onlineUsers, wsClients>>
        /\ out' = <<>>]_vars

====
